---------------------------- MODULE Spec2Model ----------------------------
(***************************************************************************)
(* DMA buffer ownership and transfer lifecycle of the stm32f411 board      *)
(* support crate.                                                          *)
(*                                                                         *)
(*   src/src/dma2.rs  Dma (stream controller), Buffer (shared buffer with  *)
(*                    CPU borrows and hardware locks), Buffer::release     *)
(*   src/src/dma.rs   Transfer (owned handle of one outstanding transfer), *)
(*                    per-stream is_done / wait                            *)
(*   src/src/spi.rs   Spi::send_dma, the one place a Transfer is created   *)
(*                                                                         *)
(* The DMA engine is the environment: it raises status flags on its own.   *)
(* A program uses one of the two APIs: the crate root (src/src/lib.rs)     *)
(* declares dma2/spi2 only, dma.rs/spi.rs are the alternative handle-based *)
(* API.  The variable api records which one the program is built on.       *)
(***************************************************************************)
EXTENDS Integers, FiniteSets, Sequences, TLC

VARIABLES
    api,       \* "dma2": Buffer API (dma2.rs); "dma": Transfer API (dma.rs)
    buf,       \* the Buffer<T>: [flag, state, stream]               (dma2.rs:333)
    refs,      \* number of live Ref values of buf                   (dma2.rs:279)
    refmuts,   \* number of live RefMut values of buf                (dma2.rs:302)
    hwlocks,   \* references handed to the hardware by lock/lock_mut and
               \* not yet taken back by a release that unlocked
    dma,       \* the DMA register block, one entry per stream
    peer,      \* a second stream of the same engine used by another driver
    xfer,      \* the Transfer handle: [st, buffer, payload]         (dma.rs:29)
    tstream,   \* the stream type parameter of the Transfer
    cpu,       \* the values CPU code owns (the words buffer, the Spi)
    derefs,    \* live shared references to the buffer got through deref
    trip,      \* progress of the lock / completion / release round trip in
               \* course and the borrow count before its lock
    events,    \* what the last release or wait did, in program order
    buf2,      \* a second Buffer<T>, for the drivers that take two
    spi,       \* the Spi of spi2.rs: the streams of its dmatx and dmarx
    handed,    \* the <<stream, buffer>> pairs of the transfers the drivers
               \* of spi2.rs have started: the buffer each stream works on
    args,      \* the arguments of the program's last own call of set_config
               \* or mode
    cbuf,      \* the CircBuffer<T>: [state, stream]
    filling,   \* the half of the CircBuffer the engine is writing to
    rel,       \* a release in course: the register block at its first read
    last       \* the last operation and what it returned

vars == <<api, buf, refs, refmuts, hwlocks, dma, peer, xfer, tstream, cpu,
          derefs, trip, events, buf2, spi, handed, args, cbuf, filling, rel,
          last>>

-----------------------------------------------------------------------------
(* Bounds of the model *)

\* CPU code holds at most this many Ref values at a time.
MaxRefs == 2

\* set_config is called with transfer counts 1 .. MaxLength.
MaxLength == 2

-----------------------------------------------------------------------------
(* Streams and registers *)

\* enum DMAStream { Stream0 .. Stream4 }: the streams a Buffer can be bound to.
DMAStream == 0 .. 4

\* The streams of one engine that have status flags and a Transfer impl.
HwStreams == 0 .. 7

\* Flags of streams 0..3 live in lisr/lifcr, those of 4..7 in hisr/hifcr.
LowStreams == 0 .. 3

\* Register block after reset: no flag set, no stream enabled, direction
\* field 0 (peripheral-to-memory), normal mode (CIRC and PFCTRL clear),
\* count and address registers 0.
DmaReset ==
    [ tcif |-> [s \in HwStreams |-> FALSE],
      htif |-> [s \in HwStreams |-> FALSE],
      teif |-> [s \in HwStreams |-> FALSE],
      en   |-> [s \in HwStreams |-> FALSE],
      circ |-> [s \in HwStreams |-> FALSE],
      pfctrl |-> [s \in HwStreams |-> FALSE],
      dir  |-> [s \in HwStreams |-> "periph_to_memory"],
      ndtr |-> [s \in HwStreams |-> 0],
      par  |-> [s \in HwStreams |-> 0],
      m0ar |-> [s \in HwStreams |-> 0] ]

\* lifcr.write(|w| w.ctcifN().set_bit()): a write of the low flag-clear
\* register with the one bit ctcifN set; it clears tcifN of lisr, N in 0..3.
lifcr_write_ctcif(d, n) == [d EXCEPT !.tcif[n] = FALSE]

\* hifcr.write(|w| w.ctcifN().set_bit()), N in 4..7.
hifcr_write_ctcif(d, n) == [d EXCEPT !.tcif[n] = FALSE]

\* Dma::enable / $STREAM::enable: scr.modify(en.set_bit()).
enable(d, s) == [d EXCEPT !.en[s] = TRUE]

\* Dma::disable / release's scr.modify(en.disable()).
disable(d, s) == [d EXCEPT !.en[s] = FALSE]

\* Dma::is_enabled / $STREAM::is_enabled.
is_enabled(d, s) == d.en[s]

\* The values of the DIR field of a stream's configuration register.
Directions == {"periph_to_memory", "memory_to_periph", "memory_to_memory"}

\* Dma::direction / $STREAM::direction: scr.modify(dir.variant(direction)).
direction(d, s, dir) == [d EXCEPT !.dir[s] = dir]

\* enum Mode
Modes == {"Normal", "Circular", "PeripheralFlowControl"}

\* mode that sets the bit of the mode asked for and clears none.
mode_sets_only(d, s, m) ==
    CASE m = "Normal" -> d
      [] m = "Circular" -> [d EXCEPT !.circ[s] = TRUE]
      [] m = "PeripheralFlowControl" -> [d EXCEPT !.pfctrl[s] = TRUE]

\* Dma::mode / $STREAM::mode: scr.modify that writes the CIRC and the PFCTRL
\* bit and keeps every other field of the configuration register.
mode(d, s, m) ==
    CASE m = "Normal" -> [d EXCEPT !.circ[s] = FALSE, !.pfctrl[s] = FALSE]
      [] m = "Circular" -> [d EXCEPT !.circ[s] = TRUE, !.pfctrl[s] = FALSE]
      [] m = "PeripheralFlowControl" ->
           [d EXCEPT !.circ[s] = FALSE, !.pfctrl[s] = TRUE]

\* set_config that takes src for the peripheral side whatever the direction.
set_config_one_way(d, s, src_address, dst_address, length) ==
    [d EXCEPT !.ndtr[s] = length, !.par[s] = src_address,
              !.m0ar[s] = dst_address]

\* Dma::set_config / $STREAM::set_config.
set_config(d, s, src_address, dst_address, length) ==
    LET d1 == [d EXCEPT !.ndtr[s] = length] IN
    IF d1.dir[s] = "periph_to_memory"
    THEN [d1 EXCEPT !.par[s] = src_address, !.m0ar[s] = dst_address]
    ELSE [d1 EXCEPT !.par[s] = dst_address, !.m0ar[s] = src_address]

-----------------------------------------------------------------------------
(* Buffer (dma2.rs) *)

\* type BorrowFlag = usize.  The model reads the bit pattern as a two's
\* complement number, so that !0 (all ones) is -1 and wrapping +1 / -1 are
\* the integer +1 / -1 over the range the model explores.
UNUSED == 0

WRITING == -1

States == {"Unlocked", "Locked", "MutLocked"}

\* Buffer::new(data, stream)
BufferNew(stream) == [flag |-> UNUSED, state |-> "Unlocked", stream |-> stream]

\* A failed assert_eq!/assert_ne!: the program aborts, nothing is written.
Panicked(b) == [ok |-> FALSE, buf |-> b]

Returned(b) == [ok |-> TRUE, buf |-> b]

\* Buffer::borrow
borrow(b) ==
    IF b.flag = WRITING THEN Panicked(b)
    ELSE Returned([b EXCEPT !.flag = @ + 1])

\* borrow_mut that refuses a live RefMut only.
borrow_mut_over_refs(b) ==
    IF b.flag = WRITING THEN Panicked(b)
    ELSE Returned([b EXCEPT !.flag = WRITING])

\* Buffer::borrow_mut
borrow_mut(b) ==
    IF b.flag # UNUSED THEN Panicked(b)
    ELSE Returned([b EXCEPT !.flag = WRITING])

\* Drop for Ref: flag.set(flag.get() - 1)
drop_ref(b) == [b EXCEPT !.flag = @ - 1]

\* Drop for RefMut: flag.set(UNUSED)
drop_refmut(b) == [b EXCEPT !.flag = UNUSED]

\* lock that does not look at the lock state.
lock_relock(b) ==
    IF b.flag = WRITING THEN Panicked(b)
    ELSE Returned([b EXCEPT !.flag = @ + 1, !.state = "Locked"])

\* lock that leaves the borrow count alone.
lock_uncounted(b) ==
    IF b.state # "Unlocked" THEN Panicked(b)
    ELSE IF b.flag = WRITING THEN Panicked(b)
    ELSE Returned([b EXCEPT !.state = "Locked"])

\* Buffer::lock
lock(b) ==
    IF b.state # "Unlocked" THEN Panicked(b)
    ELSE IF b.flag = WRITING THEN Panicked(b)
    ELSE Returned([b EXCEPT !.flag = @ + 1, !.state = "Locked"])

\* lock_mut that does not look at the borrow count.
lock_mut_over_borrows(b) ==
    IF b.state # "Unlocked" THEN Panicked(b)
    ELSE Returned([b EXCEPT !.flag = WRITING, !.state = "MutLocked"])

\* Buffer::lock_mut
lock_mut(b) ==
    IF b.state # "Unlocked" THEN Panicked(b)
    ELSE IF b.flag # UNUSED THEN Panicked(b)
    ELSE Returned([b EXCEPT !.flag = WRITING, !.state = "MutLocked"])

\* unlock that resets the count to UNUSED whatever the lock was.
unlock_resets(b, state) == [b EXCEPT !.flag = UNUSED, !.state = "Unlocked"]

\* unlock that takes one off the count whatever the lock was.
unlock_decrements(b, state) == [b EXCEPT !.flag = @ - 1, !.state = "Unlocked"]

\* Buffer::unlock(state)
unlock(b, state) ==
    LET f == CASE state = "Locked"    -> b.flag - 1
               [] state = "MutLocked" -> UNUSED
               [] OTHER               -> b.flag
    IN  [b EXCEPT !.flag = f, !.state = "Unlocked"]

\* release's first match: the transfer-error flag of the buffer's stream.
status_teif(b, d) == d.teif[b.stream]

\* release's first match: the transfer-complete flag of the buffer's stream.
status_tcif(b, d) == d.tcif[b.stream]

\* release's second match: the flag-clear write made for each stream.  Every
\* arm writes lifcr; the arm of Stream4 writes ctcif2.
release_clear(b, d) ==
    CASE b.stream = 0 -> lifcr_write_ctcif(d, 0)
      [] b.stream = 1 -> lifcr_write_ctcif(d, 1)
      [] b.stream = 2 -> lifcr_write_ctcif(d, 2)
      [] b.stream = 3 -> lifcr_write_ctcif(d, 3)
      [] b.stream = 4 -> lifcr_write_ctcif(d, 2)

\* release that looks at the complete flag before the error flag.
release_at_complete_first(b, d1, d2) ==
    LET state == b.state IN
    IF state = "Unlocked" THEN [ret |-> "Ok", buf |-> b, dma |-> d2]
    ELSE IF status_tcif(b, d2)
         THEN [ret |-> "Ok",
               buf |-> unlock(b, state),
               dma |-> disable(release_clear(b, d2), b.stream)]
    ELSE IF status_teif(b, d1) THEN [ret |-> "Transfer", buf |-> b, dma |-> d2]
    ELSE [ret |-> "WouldBlock", buf |-> b, dma |-> d2]

\* release that disables the stream before it looks at the flags.
release_at_disables_first(b, d1, d2) ==
    LET state == b.state
        d3    == disable(d2, b.stream)
    IN
    IF state = "Unlocked" THEN [ret |-> "Ok", buf |-> b, dma |-> d2]
    ELSE IF status_teif(b, d1) THEN [ret |-> "Transfer", buf |-> b, dma |-> d3]
    ELSE IF status_tcif(b, d2)
         THEN [ret |-> "Ok",
               buf |-> unlock(b, state),
               dma |-> release_clear(b, d3)]
         ELSE [ret |-> "WouldBlock", buf |-> b, dma |-> d3]

\* release without the early return on an Unlocked buffer.
release_at_no_early_return(b, d1, d2) ==
    LET state == b.state IN
    IF status_teif(b, d1) THEN [ret |-> "Transfer", buf |-> b, dma |-> d2]
    ELSE IF status_tcif(b, d2)
         THEN [ret |-> "Ok",
               buf |-> unlock(b, state),
               dma |-> disable(release_clear(b, d2), b.stream)]
         ELSE [ret |-> "WouldBlock", buf |-> b, dma |-> d2]

\* release that acknowledges the error it reports (writes the cteif bit).
release_at_error_acknowledged(b, d1, d2) ==
    LET state == b.state IN
    IF state = "Unlocked" THEN [ret |-> "Ok", buf |-> b, dma |-> d2]
    ELSE IF status_teif(b, d1)
         THEN [ret |-> "Transfer", buf |-> b,
               dma |-> [d2 EXCEPT !.teif[b.stream] = FALSE]]
    ELSE IF status_tcif(b, d2)
         THEN [ret |-> "Ok",
               buf |-> unlock(b, state),
               dma |-> disable(release_clear(b, d2), b.stream)]
         ELSE [ret |-> "WouldBlock", buf |-> b, dma |-> d2]

\* Buffer::release.  The status register is read twice (teif, then tcif):
\* d1 is the register block at the first read, d2 at the second read and at
\* the writes that follow.
release_at(b, d1, d2) ==
    LET state == b.state IN
    IF state = "Unlocked" THEN [ret |-> "Ok", buf |-> b, dma |-> d2]
    ELSE IF status_teif(b, d1) THEN [ret |-> "Transfer", buf |-> b, dma |-> d2]
    ELSE IF status_tcif(b, d2)
         THEN [ret |-> "Ok",
               buf |-> unlock(b, state),
               dma |-> disable(release_clear(b, d2), b.stream)]
         ELSE [ret |-> "WouldBlock", buf |-> b, dma |-> d2]

\* release with no hardware event between its two status reads.
release(b, d) == release_at(b, d, d)

\* What release does, in program order, on each of its paths: the two reads
\* of the status register, unlock, the flag-clear write, the write that
\* disables the stream, the return.  No barrier is issued on any path (the
\* FIXME above release asks for one).
release_events(b, d1, d2) ==
    IF b.state = "Unlocked" THEN <<"return">>
    ELSE IF status_teif(b, d1) THEN <<"read_teif", "read_tcif", "return">>
    ELSE IF status_tcif(b, d2)
         THEN <<"read_teif", "read_tcif", "unlock", "clear_tcif", "disable",
                "return">>
         ELSE <<"read_teif", "read_tcif", "return">>

-----------------------------------------------------------------------------
(* Transfer (dma.rs) *)

\* The buffer and the payload of the one transfer the model follows:
\* the words passed to Spi::send_dma and the Spi itself.
Words == "words"

SpiDev == "spi"

\* A second slice, the one Spi::transfer of spi2.rs receives into.
RxWords == "rx_words"

NoTransfer == [st |-> "none", buffer |-> "none", payload |-> "none"]

\* Transfer::new(buffer, payload)
TransferNew(buffer, payload) ==
    [st |-> "outstanding", buffer |-> buffer, payload |-> payload]

\* is_done that reads the low status register for every stream.
is_done_low_register(d, s) ==
    IF d.teif[s % 4] THEN "Transfer"
    ELSE IF d.tcif[s % 4] THEN "true" ELSE "false"

\* is_done: one read of the stream's status register, error flag first.
is_done(d, s) ==
    IF d.teif[s] THEN "Transfer"
    ELSE IF d.tcif[s] THEN "true" ELSE "false"

\* wait's flag-clear write made to the low register for every stream.
wait_clear_low_register(d, s) == lifcr_write_ctcif(d, s % 4)

\* wait's flag-clear write: $INT.write(|w| w.$CTCIF().set_bit()) with the
\* register and the bit of the stream's row in the streams! table.
wait_clear(d, s) ==
    IF s \in LowStreams THEN lifcr_write_ctcif(d, s) ELSE hifcr_write_ctcif(d, s)

\* wait that hands the buffer and the payload back next to the error.
wait_step_error_hands_back(x, d, s) ==
    LET r == is_done(d, s) IN
    CASE r = "Transfer" ->
           [xfer |-> [st |-> "failed", buffer |-> "none", payload |-> "none"],
            dma |-> d, ret |-> "Transfer", out |-> {x.buffer, x.payload}]
      [] r = "true" ->
           [xfer |-> [st |-> "returned", buffer |-> "none", payload |-> "none"],
            dma |-> wait_clear(d, s), ret |-> "Ok",
            out |-> {x.buffer, x.payload}]
      [] r = "false" ->
           [xfer |-> [x EXCEPT !.st = "waiting"],
            dma |-> d, ret |-> "spin", out |-> {}]

\* wait that clears the complete flag on its error path too.
wait_step_error_clears(x, d, s) ==
    LET r == is_done(d, s) IN
    CASE r = "Transfer" ->
           [xfer |-> [st |-> "failed", buffer |-> "none", payload |-> "none"],
            dma |-> wait_clear(d, s), ret |-> "Transfer", out |-> {}]
      [] r = "true" ->
           [xfer |-> [st |-> "returned", buffer |-> "none", payload |-> "none"],
            dma |-> wait_clear(d, s), ret |-> "Ok",
            out |-> {x.buffer, x.payload}]
      [] r = "false" ->
           [xfer |-> [x EXCEPT !.st = "waiting"],
            dma |-> d, ret |-> "spin", out |-> {}]

\* wait that polls once (`if` in place of `while`) and goes on to its tail.
wait_step_polls_once(x, d, s) ==
    LET r == is_done(d, s) IN
    CASE r = "Transfer" ->
           [xfer |-> [st |-> "failed", buffer |-> "none", payload |-> "none"],
            dma |-> d, ret |-> "Transfer", out |-> {}]
      [] OTHER ->
           [xfer |-> [st |-> "returned", buffer |-> "none", payload |-> "none"],
            dma |-> wait_clear(d, s), ret |-> "Ok",
            out |-> {x.buffer, x.payload}]

\* One turn of wait's loop `while !self.is_done()? {}` and, when the loop
\* ends, the rest of wait.  Gives the handle, the register block, what wait
\* returned ("spin" while it has not) and the values handed to the caller.
wait_step(x, d, s) ==
    LET r == is_done(d, s) IN
    CASE r = "Transfer" ->
           [xfer |-> [st |-> "failed", buffer |-> "none", payload |-> "none"],
            dma |-> d, ret |-> "Transfer", out |-> {}]
      [] r = "true" ->
           [xfer |-> [st |-> "returned", buffer |-> "none", payload |-> "none"],
            dma |-> wait_clear(d, s), ret |-> "Ok",
            out |-> {x.buffer, x.payload}]
      [] r = "false" ->
           [xfer |-> [x EXCEPT !.st = "waiting"],
            dma |-> d, ret |-> "spin", out |-> {}]

\* wait with its fence issued before the loop.
wait_events_fence_before_poll(d, s) ==
    LET r == is_done(d, s) IN
    CASE r = "Transfer" -> <<"is_done", "return">>
      [] r = "true" -> <<"compiler_fence", "is_done", "clear_tcif", "return">>
      [] r = "false" -> <<"is_done">>

\* What one turn of wait does, in program order: the poll, and once the poll
\* has read the complete flag set, atomic::compiler_fence(SeqCst), the
\* flag-clear write and the return of (buffer, payload).
wait_events(d, s) ==
    LET r == is_done(d, s) IN
    CASE r = "Transfer" -> <<"is_done", "return">>
      [] r = "true" -> <<"is_done", "compiler_fence", "clear_tcif", "return">>
      [] r = "false" -> <<"is_done">>

-----------------------------------------------------------------------------
(* Initial state *)

Op(op, ret) == [op |-> op, ret |-> ret]

\* No round trip in course.
NoTrip == [step |-> "idle", pre |-> UNUSED]

\* The round trip after a lock that returned, taken at borrow count pre.
TripLocked(pre) == [step |-> "locked", pre |-> pre]

\* The stream whose flags sit at the same bits of the other register group.
TwinStream(s) == (s + 4) % 8

InitDma2 ==
    /\ api = "dma2"
    /\ \E s \in DMAStream : buf = BufferNew(s)
    /\ peer \in DMAStream
    /\ tstream = 0
    /\ cpu = {}

InitDma ==
    /\ api = "dma"
    /\ buf = BufferNew(0)
    /\ tstream \in HwStreams
    /\ peer \in {tstream, TwinStream(tstream)}
    /\ cpu = {Words, SpiDev}

\* No call of set_config yet.
NoArgs == [stream |-> 0, src |-> 0, dst |-> 0, length |-> 0, mode |-> "None"]

\* No stream started by a driver of spi2.rs.
NoneHanded == {}

\* A CircBuffer dedicated to one stream, not yet handed to the engine.
CircBufferNew(stream) == [state |-> "Free", stream |-> stream]

\* No release is between its two reads of the status register.
NoRelease == <<>>

\* Spi::new(reg, role, dmarx, dmatx) with both Dma given (spi2.rs).
SpiNew(dmarx, dmatx) == [dmarx |-> dmarx, dmatx |-> dmatx]

\* A program that calls the operations of Buffer and Transfer itself: the
\* Spi of spi2.rs and the second buffer are there and are not used.
InitUnused ==
    /\ buf2 = BufferNew(peer)
    /\ spi = SpiNew(peer, buf.stream)
    /\ handed = NoneHanded
    /\ args = NoArgs
    /\ cbuf = CircBufferNew(buf.stream)
    /\ filling = 0
    /\ rel = NoRelease

\* Nothing borrowed, locked, started or returned yet; registers at reset.
InitRest ==
    /\ refs = 0
    /\ refmuts = 0
    /\ hwlocks = 0
    /\ dma = DmaReset
    /\ xfer = NoTransfer
    /\ derefs = 0
    /\ trip = NoTrip
    /\ events = <<>>
    /\ last = Op("init", "None")

Init ==
    /\ InitDma2 \/ InitDma
    /\ InitUnused
    /\ InitRest

\* CPU code runs as long as no assertion has aborted the program.
Running == last.ret # "Panic"

bufVars == <<buf, refs, refmuts, hwlocks>>

xferVars == <<xfer, cpu, derefs>>

\* What the operations of Buffer and Transfer never write.
fixedVars == <<api, peer, tstream, buf2, spi, handed, args, cbuf, filling, rel>>

dma2Vars == <<buf, refs, refmuts, hwlocks, trip>>


-----------------------------------------------------------------------------
(* Operations on the Buffer, api = "dma2" *)

\* flag.get() - 1 on a flag of 0 underflows usize: a build with overflow
\* checks aborts there, a build without them wraps to !0.  Both builds are
\* outcomes of the decrement.
SubOutcomes(flag) == IF flag = UNUSED THEN {"abort", "wrap"} ELSE {"wrap"}

Borrow ==
    /\ api = "dma2" /\ Running
    /\ refs < MaxRefs
    /\ LET r == borrow(buf) IN
         /\ buf' = r.buf
         /\ refs' = IF r.ok THEN refs + 1 ELSE refs
         /\ last' = Op("borrow", IF r.ok THEN "Ref" ELSE "Panic")
    /\ trip' = NoTrip
    /\ events' = <<>>
    /\ UNCHANGED <<refmuts, hwlocks, dma, xferVars, fixedVars>>

BorrowMut ==
    /\ api = "dma2" /\ Running
    /\ LET r == borrow_mut(buf) IN
         /\ buf' = r.buf
         /\ refmuts' = IF r.ok THEN refmuts + 1 ELSE refmuts
         /\ last' = Op("borrow_mut", IF r.ok THEN "RefMut" ELSE "Panic")
    /\ trip' = NoTrip
    /\ events' = <<>>
    /\ UNCHANGED <<refs, hwlocks, dma, xferVars, fixedVars>>

\* A live Ref goes out of scope.
DropRef ==
    /\ api = "dma2" /\ Running
    /\ refs > 0
    /\ \E o \in SubOutcomes(buf.flag) :
         IF o = "abort"
         THEN /\ last' = Op("drop_ref", "Panic")
              /\ UNCHANGED <<buf, refs>>
         ELSE /\ buf' = drop_ref(buf)
              /\ refs' = refs - 1
              /\ last' = Op("drop_ref", "None")
    /\ trip' = NoTrip
    /\ events' = <<>>
    /\ UNCHANGED <<refmuts, hwlocks, dma, xferVars, fixedVars>>

\* A live RefMut goes out of scope.
DropRefMut ==
    /\ api = "dma2" /\ Running
    /\ refmuts > 0
    /\ buf' = drop_refmut(buf)
    /\ refmuts' = refmuts - 1
    /\ last' = Op("drop_refmut", "None")
    /\ trip' = NoTrip
    /\ events' = <<>>
    /\ UNCHANGED <<refs, hwlocks, dma, xferVars, fixedVars>>

\* A driver of the crate takes the read lock for the hardware.
Lock ==
    /\ api = "dma2" /\ Running
    /\ LET r == lock(buf) IN
         /\ buf' = r.buf
         /\ hwlocks' = IF r.ok THEN hwlocks + 1 ELSE hwlocks
         /\ last' = Op("lock", IF r.ok THEN "Shared" ELSE "Panic")
         /\ trip' = IF r.ok THEN TripLocked(buf.flag) ELSE NoTrip
    /\ events' = <<>>
    /\ UNCHANGED <<refs, refmuts, dma, xferVars, fixedVars>>

\* A driver of the crate takes the write lock for the hardware.
LockMut ==
    /\ api = "dma2" /\ Running
    /\ LET r == lock_mut(buf) IN
         /\ buf' = r.buf
         /\ hwlocks' = IF r.ok THEN hwlocks + 1 ELSE hwlocks
         /\ last' = Op("lock_mut", IF r.ok THEN "Exclusive" ELSE "Panic")
         /\ trip' = IF r.ok THEN TripLocked(buf.flag) ELSE NoTrip
    /\ events' = <<>>
    /\ UNCHANGED <<refs, refmuts, dma, xferVars, fixedVars>>

\* Buffer::release(dma), one poll.
Release ==
    /\ api = "dma2" /\ Running
    /\ LET r == release(buf, dma)
           unlocks == buf.state # "Unlocked" /\ r.buf.state = "Unlocked"
           outcomes == IF unlocks /\ buf.state = "Locked"
                       THEN SubOutcomes(buf.flag) ELSE {"wrap"}
       IN  \E o \in outcomes :
             IF o = "abort"
             THEN /\ last' = Op("release", "Panic")
                  /\ events' = <<"read_teif", "read_tcif">>
                  /\ UNCHANGED <<buf, dma, hwlocks, trip>>
             ELSE /\ buf' = r.buf
                  /\ events' = release_events(buf, dma, dma)
                  /\ dma' = r.dma
                  /\ hwlocks' = IF unlocks THEN hwlocks - 1 ELSE hwlocks
                  /\ last' = Op("release", r.ret)
                  /\ trip' = IF ~unlocks /\ buf.state # "Unlocked" THEN trip
                             ELSE IF unlocks /\ trip.step = "completed"
                             THEN [trip EXCEPT !.step = "released"]
                             ELSE NoTrip
    /\ UNCHANGED <<refs, refmuts, xferVars, fixedVars>>

\* The streams the program and the hardware act on.
Active == IF api = "dma2" THEN {buf.stream, peer} ELSE {tstream, peer}

\* Dma::enable on the controller of stream s.
DmaEnable(s) ==
    /\ api = "dma2" /\ Running
    /\ s \in Active
    /\ dma' = enable(dma, s)
    /\ last' = Op("enable", "None")
    /\ events' = <<>>
    /\ UNCHANGED <<bufVars, trip, xferVars, fixedVars>>

-----------------------------------------------------------------------------
(* The DMA engine.  The model follows it while the program runs: once an
   assertion has aborted the program nothing more is observed. *)

\* The engine raises the transfer-complete flag of stream s.
HwTransferComplete(s) ==
    /\ Running
    /\ s \in Active
    /\ ~dma.tcif[s]
    /\ dma' = [dma EXCEPT !.tcif[s] = TRUE]
    /\ last' = Op("hw", "None")
    /\ trip' = IF api = "dma2" /\ s = buf.stream /\ trip.step = "locked"
               THEN [trip EXCEPT !.step = "completed"]
               ELSE trip
    /\ events' = <<>>
    /\ UNCHANGED <<bufVars, xferVars, fixedVars>>

\* The engine raises the transfer-error flag of stream s.
HwTransferError(s) ==
    /\ Running
    /\ s \in Active
    /\ ~dma.teif[s]
    /\ dma' = [dma EXCEPT !.teif[s] = TRUE]
    /\ last' = Op("hw", "None")
    /\ events' = <<>>
    /\ UNCHANGED <<bufVars, trip, xferVars, fixedVars>>

-----------------------------------------------------------------------------
(* Operations on the Transfer, api = "dma" *)

\* slice.as_ptr() as u32, &self.spi.dr as u32, slice.len(): the values
\* send_dma passes to set_config.
as_ptr(words) ==
    CASE words = Words  -> 16
      [] words = RxWords -> 80
      [] words = "buf"  -> 48
      [] words = "buf2" -> 64
      [] OTHER          -> 0

dr_address(reg) == IF reg = SpiDev THEN 32 ELSE 0

len(words) ==
    CASE words = Words  -> 4
      [] words = RxWords -> 4
      [] words = "buf"  -> 4
      [] words = "buf2" -> 2
      [] OTHER          -> 0

\* DmaWrite::send_dma for Spi<D2S1, D2S4> (spi.rs): consumes the Spi and the
\* words, programs and enables the stream, returns the Transfer.  The
\* debug_assert aborts a build with debug assertions when the stream is
\* enabled already; a build without them goes on.
SendDma ==
    /\ api = "dma" /\ Running
    /\ cpu = {Words, SpiDev}
    /\ \E debug_assertions \in BOOLEAN :
         IF debug_assertions /\ is_enabled(dma, tstream)
         THEN /\ last' = Op("send_dma", "Panic")
              /\ UNCHANGED <<dma, xfer, cpu>>
         ELSE /\ dma' = enable(set_config(dma, tstream, as_ptr(Words),
                                          dr_address(SpiDev), len(Words)),
                               tstream)
              /\ xfer' = TransferNew(Words, SpiDev)
              /\ cpu' = {}
              /\ last' = Op("send_dma", "Transfer")
    /\ events' = <<>>
    /\ UNCHANGED <<dma2Vars, derefs, fixedVars>>

\* Transfer::is_done(&self)
IsDone ==
    /\ api = "dma" /\ Running
    /\ xfer.st = "outstanding"
    /\ last' = Op("is_done", is_done(dma, tstream))
    /\ events' = <<>>
    /\ UNCHANGED <<dma2Vars, dma, xferVars, fixedVars>>

\* Transfer::deref(&self) -> &B: a shared reference to the buffer field,
\* borrowed from the handle.
Deref ==
    /\ api = "dma" /\ Running
    /\ xfer.st = "outstanding"
    /\ derefs < MaxRefs
    /\ derefs' = derefs + 1
    /\ last' = Op("deref", xfer.buffer)
    /\ events' = <<>>
    /\ UNCHANGED <<dma2Vars, dma, xfer, cpu, fixedVars>>

\* A reference got through deref goes out of scope.
DerefEnd ==
    /\ api = "dma" /\ Running
    /\ derefs > 0
    /\ derefs' = derefs - 1
    /\ last' = Op("deref_end", "None")
    /\ events' = <<>>
    /\ UNCHANGED <<dma2Vars, dma, xfer, cpu, fixedVars>>

\* Transfer::wait(self): the call moves the handle (no reference borrowed
\* from it may be live); each step is one turn of its loop.
Wait ==
    /\ api = "dma" /\ Running
    /\ xfer.st \in {"outstanding", "waiting"}
    /\ derefs = 0
    /\ LET r == wait_step(xfer, dma, tstream) IN
         /\ xfer' = r.xfer
         /\ dma' = r.dma
         /\ cpu' = cpu \cup r.out
         /\ last' = Op("wait", r.ret)
    /\ events' = wait_events(dma, tstream)
    /\ UNCHANGED <<dma2Vars, derefs, fixedVars>>

-----------------------------------------------------------------------------
(* Specification *)

Next ==
    \/ Borrow
    \/ BorrowMut
    \/ DropRef
    \/ DropRefMut
    \/ Lock
    \/ LockMut
    \/ Release
    \/ \E s \in DMAStream : DmaEnable(s)
    \/ \E s \in HwStreams : HwTransferComplete(s)
    \/ \E s \in HwStreams : HwTransferError(s)
    \/ SendDma
    \/ IsDone
    \/ Deref
    \/ DerefEnd
    \/ Wait

Spec == Init /\ [][Next]_vars

\* The CPU never stops: a wait that has been called goes on polling.  The
\* DMA engine is under no obligation to complete or to fail a transfer.
FairSpec == Spec /\ WF_vars(Wait)

-----------------------------------------------------------------------------
(* The stream controller on its own: a program that sets the direction of
   its streams, programs them with set_config and enables them. *)

\* The program has a controller for each of two streams: any of Stream0 ..
\* Stream4 and the one after it.
InitConfig == Init /\ api = "dma2" /\ peer = (buf.stream + 1) % 5

\* The addresses given to set_config: a buffer in memory, a data register.
Addresses == {as_ptr(Words), dr_address(SpiDev)}

\* Dma::direction(direction) on the controller of stream s.
DmaDirection(s, dir) ==
    /\ s \in Active
    /\ dma' = direction(dma, s, dir)
    /\ last' = Op("direction", "None")
    /\ events' = <<>>
    /\ UNCHANGED <<bufVars, trip, xferVars, fixedVars>>

\* Dma::set_config(src_address, dst_address, length) on the controller of
\* stream s.
DmaSetConfig(s, src_address, dst_address, length) ==
    /\ s \in Active
    /\ dma' = set_config(dma, s, src_address, dst_address, length)
    /\ args' = [stream |-> s, src |-> src_address, dst |-> dst_address,
                length |-> length, mode |-> "None"]
    /\ last' = Op("set_config", "None")
    /\ events' = <<>>
    /\ UNCHANGED <<bufVars, trip, xferVars, api, peer, tstream, buf2, spi,
                   handed, cbuf, filling, rel>>

ConfigNext ==
    \/ \E s \in DMAStream, dir \in Directions : DmaDirection(s, dir)
    \/ \E s \in DMAStream, src_address, dst_address \in Addresses,
          length \in 1 .. MaxLength :
            /\ src_address # dst_address
            /\ DmaSetConfig(s, src_address, dst_address, length)
    \/ \E s \in DMAStream : DmaEnable(s)

ConfigSpec == InitConfig /\ [][ConfigNext]_vars

-----------------------------------------------------------------------------
(* The Spi driver of spi2.rs: a program that hands its two Buffers to
   send_dma and rxtx_dma and polls them with release. *)

\* The two Buffers by name.
Buffers == {"buf", "buf2"}

Bufs == [buf |-> buf, buf2 |-> buf2]

\* The <<stream, buffer>> pairs after the streams of new were started.
Started(old, new) ==
    {p \in old : \A q \in new : p[1] # q[1]} \cup new

\* rxtx_dma that looks at the enable bit of the transmit stream only.
rxtx_dma_checks_tx_only(sp, B, tx_buffer, rx_buffer, d) ==
    IF is_enabled(d, sp.dmatx)
    THEN [ret |-> "InUse", bufs |-> B, dma |-> d, started |-> {}]
    ELSE
      LET l1 == lock(B[tx_buffer]) IN
      IF ~l1.ok
      THEN [ret |-> "Panic", bufs |-> B, dma |-> d, started |-> {}]
      ELSE
        LET B1 == [B EXCEPT ![tx_buffer] = l1.buf]
            d1 == set_config(d, sp.dmatx, as_ptr(tx_buffer),
                             dr_address(SpiDev), len(tx_buffer))
            l2 == lock(B1[rx_buffer])
        IN
        IF ~l2.ok
        THEN [ret |-> "Panic", bufs |-> B1, dma |-> d1, started |-> {}]
        ELSE
          LET d2 == set_config(d1, sp.dmarx, dr_address(SpiDev),
                               as_ptr(rx_buffer), len(rx_buffer))
          IN [ret |-> "Ok",
              bufs |-> [B1 EXCEPT ![rx_buffer] = l2.buf],
              dma |-> enable(enable(d2, sp.dmarx), sp.dmatx),
              started |-> {<<sp.dmatx, tx_buffer>>, <<sp.dmarx, rx_buffer>>}]

\* Spi::send_dma(buffer) of spi2.rs on the Spi sp, the Buffers B (by name)
\* and the register block d: what it returns, the Buffers and the
\* registers after it, the transfer it started.
send_dma(sp, B, buffer, d) ==
    IF is_enabled(d, sp.dmatx)
    THEN [ret |-> "InUse", bufs |-> B, dma |-> d, started |-> {}]
    ELSE
      LET l == lock(B[buffer]) IN
      IF ~l.ok
      THEN [ret |-> "Panic", bufs |-> B, dma |-> d, started |-> {}]
      ELSE [ret |-> "Ok",
            bufs |-> [B EXCEPT ![buffer] = l.buf],
            dma |-> enable(set_config(d, sp.dmatx, as_ptr(buffer),
                                      dr_address(SpiDev), len(buffer)),
                           sp.dmatx),
            started |-> {<<sp.dmatx, buffer>>}]

\* Spi::rxtx_dma(tx_buffer, rx_buffer) of spi2.rs.  The second lock can
\* abort after the first lock and the first set_config were made.
rxtx_dma(sp, B, tx_buffer, rx_buffer, d) ==
    IF is_enabled(d, sp.dmatx) \/ is_enabled(d, sp.dmarx)
    THEN [ret |-> "InUse", bufs |-> B, dma |-> d, started |-> {}]
    ELSE
      LET l1 == lock(B[tx_buffer]) IN
      IF ~l1.ok
      THEN [ret |-> "Panic", bufs |-> B, dma |-> d, started |-> {}]
      ELSE
        LET B1 == [B EXCEPT ![tx_buffer] = l1.buf]
            d1 == set_config(d, sp.dmatx, as_ptr(tx_buffer),
                             dr_address(SpiDev), len(tx_buffer))
            l2 == lock(B1[rx_buffer])
        IN
        IF ~l2.ok
        THEN [ret |-> "Panic", bufs |-> B1, dma |-> d1, started |-> {}]
        ELSE
          LET d2 == set_config(d1, sp.dmarx, dr_address(SpiDev),
                               as_ptr(rx_buffer), len(rx_buffer))
          IN [ret |-> "Ok",
              bufs |-> [B1 EXCEPT ![rx_buffer] = l2.buf],
              dma |-> enable(enable(d2, sp.dmarx), sp.dmatx),
              started |-> {<<sp.dmatx, tx_buffer>>, <<sp.dmarx, rx_buffer>>}]

\* The program has two Buffers, each bound to one of two streams, and an Spi
\* whose dmatx and dmarx are controllers of these streams.
InitSpi ==
    /\ InitDma2
    /\ \E s \in {buf.stream, peer} : buf2 = BufferNew(s)
    /\ \E rx, tx \in {buf.stream, peer} : spi = SpiNew(rx, tx)
    /\ handed = NoneHanded
    /\ args = NoArgs
    /\ cbuf = CircBufferNew(buf.stream)
    /\ filling = 0
    /\ rel = NoRelease
    /\ InitRest

\* The state after a driver call that returned r.
DriverCall(op, r) ==
    /\ buf' = r.bufs.buf
    /\ buf2' = r.bufs.buf2
    /\ dma' = r.dma
    /\ handed' = Started(handed, r.started)
    /\ hwlocks' = IF r.bufs.buf.state # buf.state THEN hwlocks + 1
                  ELSE hwlocks
    /\ trip' = IF r.bufs.buf.state # buf.state THEN TripLocked(buf.flag)
               ELSE trip
    /\ last' = Op(op, r.ret)
    /\ events' = <<>>
    /\ UNCHANGED <<refs, refmuts, xferVars, api, peer, tstream, spi, args,
                   cbuf, filling, rel>>

Spi2SendDma(buffer) ==
    /\ Running
    /\ DriverCall("send_dma", send_dma(spi, Bufs, buffer, dma))

Spi2RxtxDma(tx_buffer, rx_buffer) ==
    /\ Running
    /\ DriverCall("rxtx_dma", rxtx_dma(spi, Bufs, tx_buffer, rx_buffer, dma))

\* buf2.release(dma), one poll.  CPU code never borrows buf2, so that its
\* count is 1 whenever it is Locked.
ReleaseBuf2 ==
    /\ Running
    /\ LET r == release(buf2, dma) IN
         /\ buf2' = r.buf
         /\ dma' = r.dma
         /\ last' = Op("release_buf2", r.ret)
    /\ events' = release_events(buf2, dma, dma)
    /\ UNCHANGED <<bufVars, trip, xferVars, api, peer, tstream, spi, handed,
                   args, cbuf, filling, rel>>

\* The engine completes, or fails, the transfer of a stream that a driver
\* has enabled: here no other software runs the streams.
StreamComplete(s) == dma.en[s] /\ HwTransferComplete(s)

StreamError(s) == dma.en[s] /\ HwTransferError(s)

SpiNext ==
    \/ \E buffer \in Buffers : Spi2SendDma(buffer)
    \/ \E tx_buffer, rx_buffer \in Buffers : Spi2RxtxDma(tx_buffer, rx_buffer)
    \/ Release
    \/ ReleaseBuf2
    \/ \E s \in HwStreams : StreamComplete(s)
    \/ \E s \in HwStreams : StreamError(s)

SpiSpec == InitSpi /\ [][SpiNext]_vars

-----------------------------------------------------------------------------
(* The Circular Double Buffer: a program that locks its CircBuffer, starts
   the stream in circular mode and takes the halves with read.  The crate
   has the Overrun error and Mode::Circular; the CircBuffer itself follows
   its description. *)

CircStates == {"Free", "FillingHalf0", "FillingHalf1"}

\* CircBuffer::lock: fails unless Free; the engine gets half 0 first.
circ_lock(c) ==
    IF c.state # "Free" THEN Panicked(c)
    ELSE Returned([c EXCEPT !.state = "FillingHalf0"])

\* read that hands a half over and leaves its flag set.
circ_read_keeps_flag(c, d) ==
    LET s == c.stream IN
    CASE c.state = "Free" -> [ret |-> "Panic", cbuf |-> c, dma |-> d]
      [] c.state # "Free" /\ d.teif[s] ->
           [ret |-> "Transfer", cbuf |-> c, dma |-> d]
      [] c.state = "FillingHalf0" /\ ~d.teif[s] ->
           IF d.tcif[s] THEN [ret |-> "Overrun", cbuf |-> c, dma |-> d]
           ELSE IF d.htif[s]
                THEN [ret |-> "half0",
                      cbuf |-> [c EXCEPT !.state = "FillingHalf1"],
                      dma |-> d]
                ELSE [ret |-> "WouldBlock", cbuf |-> c, dma |-> d]
      [] c.state = "FillingHalf1" /\ ~d.teif[s] ->
           IF d.htif[s] THEN [ret |-> "Overrun", cbuf |-> c, dma |-> d]
           ELSE IF d.tcif[s]
                THEN [ret |-> "half1",
                      cbuf |-> [c EXCEPT !.state = "FillingHalf0"],
                      dma |-> d]
                ELSE [ret |-> "WouldBlock", cbuf |-> c, dma |-> d]

\* read that does not look for the flag of the half it has not handed over.
circ_read_no_overrun(c, d) ==
    LET s == c.stream IN
    CASE c.state = "Free" -> [ret |-> "Panic", cbuf |-> c, dma |-> d]
      [] c.state # "Free" /\ d.teif[s] ->
           [ret |-> "Transfer", cbuf |-> c, dma |-> d]
      [] c.state = "FillingHalf0" /\ ~d.teif[s] ->
           IF d.htif[s]
           THEN [ret |-> "half0",
                 cbuf |-> [c EXCEPT !.state = "FillingHalf1"],
                 dma |-> [d EXCEPT !.htif[s] = FALSE]]
           ELSE [ret |-> "WouldBlock", cbuf |-> c, dma |-> d]
      [] c.state = "FillingHalf1" /\ ~d.teif[s] ->
           IF d.tcif[s]
           THEN [ret |-> "half1",
                 cbuf |-> [c EXCEPT !.state = "FillingHalf0"],
                 dma |-> [d EXCEPT !.tcif[s] = FALSE]]
           ELSE [ret |-> "WouldBlock", cbuf |-> c, dma |-> d]

\* CircBuffer::read(stream): asserts the state is not Free; the error flag
\* first; then, by state, the flag that tells an overrun, the flag that
\* tells the other half is full (cleared, the state moves on, the half is
\* handed over), or Pending.
circ_read(c, d) ==
    LET s == c.stream IN
    CASE c.state = "Free" -> [ret |-> "Panic", cbuf |-> c, dma |-> d]
      [] c.state # "Free" /\ d.teif[s] ->
           [ret |-> "Transfer", cbuf |-> c, dma |-> d]
      [] c.state = "FillingHalf0" /\ ~d.teif[s] ->
           IF d.tcif[s] THEN [ret |-> "Overrun", cbuf |-> c, dma |-> d]
           ELSE IF d.htif[s]
                THEN [ret |-> "half0",
                      cbuf |-> [c EXCEPT !.state = "FillingHalf1"],
                      dma |-> [d EXCEPT !.htif[s] = FALSE]]
                ELSE [ret |-> "WouldBlock", cbuf |-> c, dma |-> d]
      [] c.state = "FillingHalf1" /\ ~d.teif[s] ->
           IF d.htif[s] THEN [ret |-> "Overrun", cbuf |-> c, dma |-> d]
           ELSE IF d.tcif[s]
                THEN [ret |-> "half1",
                      cbuf |-> [c EXCEPT !.state = "FillingHalf0"],
                      dma |-> [d EXCEPT !.tcif[s] = FALSE]]
                ELSE [ret |-> "WouldBlock", cbuf |-> c, dma |-> d]

\* What the operations on the CircBuffer and its engine never write.
circFixed == <<bufVars, trip, xferVars, api, peer, tstream, buf2, spi, handed,
               args, rel>>

InitCirc == Init /\ api = "dma2"

CircLock ==
    /\ Running
    /\ LET r == circ_lock(cbuf) IN
         /\ cbuf' = r.buf
         /\ last' = Op("circ_lock", IF r.ok THEN "Halves" ELSE "Panic")
    /\ events' = <<>>
    /\ UNCHANGED <<dma, filling, circFixed>>

CircRead ==
    /\ Running
    /\ LET r == circ_read(cbuf, dma) IN
         /\ cbuf' = r.cbuf
         /\ dma' = r.dma
         /\ last' = Op("circ_read", r.ret)
    /\ events' = <<>>
    /\ UNCHANGED <<filling, circFixed>>

\* The engine, in circular mode, has filled half 0 of the buffer of the
\* enabled stream: it raises the half-transfer flag and goes on in half 1.
HwHalfFull ==
    /\ Running
    /\ dma.en[cbuf.stream]
    /\ filling = 0
    /\ dma' = [dma EXCEPT !.htif[cbuf.stream] = TRUE]
    /\ filling' = 1
    /\ last' = Op("hw", "None")
    /\ events' = <<>>
    /\ UNCHANGED <<cbuf, circFixed>>

\* The engine has filled half 1: it raises the transfer-complete flag and
\* wraps around to half 0.
HwWrapAround ==
    /\ Running
    /\ dma.en[cbuf.stream]
    /\ filling = 1
    /\ dma' = [dma EXCEPT !.tcif[cbuf.stream] = TRUE]
    /\ filling' = 0
    /\ last' = Op("hw", "None")
    /\ events' = <<>>
    /\ UNCHANGED <<cbuf, circFixed>>

CircNext ==
    \/ CircLock
    \/ CircRead
    \/ \E s \in DMAStream : DmaEnable(s)
    \/ HwHalfFull
    \/ HwWrapAround
    \/ \E s \in HwStreams : StreamError(s)

CircSpec == InitCirc /\ [][CircNext]_vars

-----------------------------------------------------------------------------
(* Full-duplex transfers with spi2.rs: a program that transmits from one
   Buffer and receives into the other with rxtx_dma, or passes two slices
   to transfer, and borrows the receive Buffer in between. *)

\* Spi::transfer(tx_buffer, rx_buffer) of spi2.rs: two slices, no Buffer is
\* locked; the count of both streams is the length of tx_buffer.
transfer(sp, B, tx_buffer, rx_buffer, d) ==
    IF is_enabled(d, sp.dmatx)
    THEN [ret |-> "InUse", bufs |-> B, dma |-> d, started |-> {}]
    ELSE
      LET d1 == set_config(d, sp.dmatx, as_ptr(tx_buffer),
                           dr_address(SpiDev), len(tx_buffer))
          d2 == set_config(d1, sp.dmarx, dr_address(SpiDev),
                           as_ptr(rx_buffer), len(tx_buffer))
      IN [ret |-> "Ok", bufs |-> B,
          dma |-> enable(enable(d2, sp.dmatx), sp.dmarx),
          started |-> {}]

\* buf is the receive Buffer on its own stream, the stream of dmarx; buf2
\* is the transmit Buffer on the next stream, the stream of dmatx.
InitRxtx ==
    /\ InitDma2
    /\ peer = (buf.stream + 1) % 5
    /\ buf2 = BufferNew(peer)
    /\ spi = SpiNew(buf.stream, peer)
    /\ handed = NoneHanded
    /\ args = NoArgs
    /\ cbuf = CircBufferNew(buf.stream)
    /\ filling = 0
    /\ rel = NoRelease
    /\ InitRest

Spi2Transfer(tx_buffer, rx_buffer) ==
    /\ Running
    /\ DriverCall("transfer", transfer(spi, Bufs, tx_buffer, rx_buffer, dma))

RxtxNext ==
    \/ Spi2RxtxDma("buf2", "buf")
    \/ Spi2Transfer(Words, RxWords)
    \/ Borrow
    \/ BorrowMut
    \/ DropRef
    \/ DropRefMut
    \/ Release
    \/ ReleaseBuf2
    \/ \E s \in HwStreams : StreamComplete(s)
    \/ \E s \in HwStreams : StreamError(s)

RxtxSpec == InitRxtx /\ [][RxtxNext]_vars

-----------------------------------------------------------------------------
(* release step by step: the engine runs while the CPU is between the two
   reads of the status register that release makes. *)

\* What release and the engine never write.
raceFixed == <<refs, refmuts, xferVars, api, peer, tstream, buf2, spi, handed,
               args, cbuf, filling>>

InitRace == Init /\ api = "dma2" /\ peer = buf.stream

\* release up to its first read of the status register, the one that gives
\* the error flag; on an Unlocked buffer it returns before any read.
ReleaseFirstRead ==
    /\ Running
    /\ rel = NoRelease
    /\ IF buf.state = "Unlocked"
       THEN /\ last' = Op("release", release(buf, dma).ret)
            /\ events' = release_events(buf, dma, dma)
            /\ UNCHANGED <<rel, trip>>
       ELSE /\ rel' = <<dma>>
            /\ last' = Op("release_first_read", "None")
            /\ events' = <<"read_teif">>
            /\ UNCHANGED trip
    /\ UNCHANGED <<buf, dma, hwlocks, raceFixed>>

\* release from its second read, the one that gives the complete flag, to
\* its return.
ReleaseSecondRead ==
    /\ Running
    /\ rel # NoRelease
    /\ LET r == release_at(buf, rel[1], dma)
           unlocks == r.buf.state = "Unlocked"
           outcomes == IF unlocks /\ buf.state = "Locked"
                       THEN SubOutcomes(buf.flag) ELSE {"wrap"}
       IN  \E o \in outcomes :
             IF o = "abort"
             THEN /\ last' = Op("release", "Panic")
                  /\ events' = <<"read_teif", "read_tcif">>
                  /\ UNCHANGED <<buf, dma, hwlocks, trip>>
             ELSE /\ buf' = r.buf
                  /\ events' = release_events(buf, rel[1], dma)
                  /\ dma' = r.dma
                  /\ hwlocks' = IF unlocks THEN hwlocks - 1 ELSE hwlocks
                  /\ last' = Op("release", r.ret)
                  /\ trip' = IF ~unlocks THEN trip
                             ELSE IF trip.step = "completed"
                             THEN [trip EXCEPT !.step = "released"]
                             ELSE NoTrip
    /\ rel' = NoRelease
    /\ UNCHANGED raceFixed

\* The CPU is not inside release.
CpuFree == rel = NoRelease

RaceNext ==
    \/ CpuFree /\ Lock
    \/ CpuFree /\ LockMut
    \/ CpuFree /\ Borrow
    \/ CpuFree /\ DropRef
    \/ CpuFree /\ \E s \in DMAStream : DmaEnable(s)
    \/ ReleaseFirstRead
    \/ ReleaseSecondRead
    \/ \E s \in HwStreams : StreamComplete(s)
    \/ \E s \in HwStreams : StreamError(s)

RaceSpec == InitRace /\ [][RaceNext]_vars

-----------------------------------------------------------------------------
(* The mode of a stream: a program that sets the mode of its streams, again
   and again, and enables them. *)

\* Dma::mode(mode) / $STREAM::mode(mode) on the controller of stream s.
DmaMode(s, m) ==
    /\ Running
    /\ s \in Active
    /\ dma' = mode(dma, s, m)
    /\ args' = [NoArgs EXCEPT !.stream = s, !.mode = m]
    /\ last' = Op("mode", "None")
    /\ events' = <<>>
    /\ UNCHANGED <<bufVars, trip, xferVars, api, peer, tstream, buf2, spi,
                   handed, cbuf, filling, rel>>

\* Dma::disable / $STREAM::disable on the controller of stream s.
DmaDisable(s) ==
    /\ Running
    /\ s \in Active
    /\ dma' = disable(dma, s)
    /\ last' = Op("disable", "None")
    /\ events' = <<>>
    /\ UNCHANGED <<bufVars, trip, xferVars, fixedVars>>

ModeNext ==
    \/ \E s \in DMAStream, m \in Modes : DmaMode(s, m)
    \/ \E s \in DMAStream : DmaEnable(s)
    \/ \E s \in DMAStream : DmaDisable(s)

ModeSpec == InitConfig /\ [][ModeNext]_vars

-----------------------------------------------------------------------------
(* The Transfer handle round after round: a program that sets the mode of
   the transmit stream, passes the Spi and the words to send_dma, waits, and
   passes what wait returned to send_dma again. *)

InitHandle == Init /\ api = "dma" /\ peer = tstream

\* $STREAM::mode(mode) on the transmit stream, with no transfer outstanding.
StreamMode(m) ==
    /\ cpu = {Words, SpiDev}
    /\ DmaMode(tstream, m)

\* The engine has moved the last item of the transfer of stream s: it
\* raises the transfer-complete flag; in circular mode it reloads the count
\* and goes on, otherwise it clears the enable bit of the stream.  None of
\* this is done by wait, whose write to the enable bit is commented out.
HwEndOfTransfer(s) ==
    /\ Running
    /\ s \in Active
    /\ dma.en[s]
    /\ dma' = [dma EXCEPT !.tcif[s] = TRUE, !.en[s] = dma.circ[s]]
    /\ last' = Op("hw", "None")
    /\ events' = <<>>
    /\ UNCHANGED <<bufVars, trip, xferVars, fixedVars>>

HandleNext ==
    \/ \E m \in Modes : StreamMode(m)
    \/ SendDma
    \/ IsDone
    \/ Wait
    \/ \E s \in HwStreams : HwEndOfTransfer(s)
    \/ \E s \in HwStreams : StreamError(s)

HandleSpec == InitHandle /\ [][HandleNext]_vars

TypeOK ==
    /\ api \in {"dma2", "dma"}
    /\ buf.state \in States
    /\ buf.stream \in DMAStream
    /\ buf.flag \in Int
    /\ refs \in 0 .. MaxRefs
    /\ refmuts \in Nat
    /\ hwlocks \in Nat
    /\ xfer.st \in {"none", "outstanding", "waiting", "returned", "failed"}
    /\ cpu \subseteq {Words, SpiDev}
    /\ derefs \in 0 .. MaxRefs

-----------------------------------------------------------------------------
(* Properties *)

\* The stream the Buffer is bound to.
S == buf.stream

\* C1: a hardware write-lock (MutLocked) never coexists with a live Ref or
\* RefMut, and a live RefMut never coexists with a hardware lock of either
\* kind.
C1_LockExcludesBorrow ==
    /\ buf.state = "MutLocked" => refs = 0 /\ refmuts = 0
    /\ refmuts > 0 => buf.state = "Unlocked"

\* A borrow was tried while the hardware held the write lock, and refused.
C1_Witness ==
    /\ buf.state = "MutLocked"
    /\ last = Op("borrow", "Panic")

\* C2, the states: on a buffer that is not hardware-locked at most one RefMut
\* is live, and no Ref is live next to it.
C2_OneWriterOrReaders ==
    buf.state = "Unlocked" => refmuts <= 1 /\ (refmuts = 1 => refs = 0)

\* C2, the calls: borrow_mut with a Ref or RefMut live aborts, borrow with a
\* RefMut live aborts, borrow with no RefMut live returns and leaves the
\* borrow count at the number of live Refs.
C2_Calls ==
    buf.state = "Unlocked" =>
      /\ last'.op = "borrow_mut" /\ (refs > 0 \/ refmuts > 0)
           => last'.ret = "Panic"
      /\ last'.op = "borrow" /\ refmuts > 0
           => last'.ret = "Panic"
      /\ last'.op = "borrow" /\ refmuts = 0
           => last'.ret = "Ref" /\ refs' = refs + 1 /\ buf'.flag = refs'

\* C2: one exclusive borrow or any number of shared borrows on a buffer that
\* is not hardware-locked; conflicting calls abort, N borrows give count N.
C2_BorrowDiscipline == []C2_OneWriterOrReaders /\ [][C2_Calls]_vars

\* Two Refs are live and a borrow_mut was refused.
C2_Witness ==
    /\ buf.state = "Unlocked"
    /\ refs = 2 /\ buf.flag = 2
    /\ last = Op("borrow_mut", "Panic")

\* C3, the calls: what decides each borrow call.
C3_Calls ==
    /\ last'.op = "borrow" =>
         (last'.ret = "Panic" <=> (refmuts > 0 \/ buf.state = "MutLocked"))
    /\ last'.op = "borrow_mut" =>
         (last'.ret = "Panic"
            <=> (refs > 0 \/ refmuts > 0 \/ buf.state # "Unlocked"))

\* C3: borrow fails exactly when a RefMut is live or the buffer is
\* write-locked; borrow_mut fails exactly when any Ref or RefMut is live or
\* the buffer is locked, for read or for write.
C3_LockGatesBorrows == [][C3_Calls]_vars

\* A borrow returned a Ref while the hardware held the read lock.
C3_Witness ==
    /\ buf.state = "Locked"
    /\ last = Op("borrow", "Ref")

\* C4, the calls: when lock and lock_mut fail and what they write.
C4_Calls ==
    /\ last'.op = "lock" /\ buf.state # "Unlocked" => last'.ret = "Panic"
    /\ last'.op = "lock_mut"
         /\ (buf.state # "Unlocked" \/ refs > 0 \/ refmuts > 0)
         => last'.ret = "Panic"
    /\ last'.op = "lock" /\ last'.ret # "Panic"
         => buf'.state = "Locked" /\ buf'.flag = buf.flag + 1
    /\ last'.op = "lock_mut" /\ last'.ret # "Panic"
         => buf'.state = "MutLocked" /\ buf'.flag = WRITING

\* C4: at most one hardware lock is held at any time; lock fails unless
\* Unlocked, lock_mut fails unless Unlocked and unborrowed; lock sets Locked
\* and adds one to the count, lock_mut sets MutLocked and the sentinel.
C4_OneHardwareLock == [](hwlocks <= 1) /\ [][C4_Calls]_vars

\* The hardware holds the read lock and a second lock was refused.
C4_Witness ==
    /\ hwlocks = 1
    /\ buf.state = "Locked"
    /\ last = Op("lock", "Panic")

\* The borrow count after unlock(state) on count flag.
Undone(state, flag) == IF state = "Locked" THEN flag - 1 ELSE UNUSED

\* C5: release on a locked buffer of any stream, error flag clear and
\* complete flag set: returns Done, the stream's complete flag reads clear
\* afterwards, the stream is disabled, the buffer is Unlocked and the count
\* is what it was before the lock.
C5_ReleaseDone ==
    [][ last'.op = "release" /\ buf.state # "Unlocked"
          /\ ~dma.teif[S] /\ dma.tcif[S]
        => /\ last'.ret = "Ok"
           /\ ~dma'.tcif[S]
           /\ ~dma'.en[S]
           /\ buf'.state = "Unlocked"
           /\ buf'.flag = Undone(buf.state, buf.flag) ]_vars

\* C6, the calls: an operation that reads the error flag set.
C6_Calls ==
    /\ last'.op = "release" /\ buf.state # "Unlocked" /\ dma.teif[S]
         => last'.ret = "Transfer" /\ buf'.state = buf.state /\ dma'.en = dma.en
    /\ last'.op = "is_done" /\ dma.teif[tstream]
         => last'.ret = "Transfer" /\ dma'.en = dma.en
    /\ last'.op = "wait" /\ dma.teif[tstream]
         => last'.ret = "Transfer" /\ dma'.en = dma.en

\* C6: release, is_done and wait report the Transfer error whenever they
\* read the error flag set, also with the complete flag set, and change
\* neither the lock state nor the enable bit.
C6_ErrorFirst == [][C6_Calls]_vars

\* Both flags are set, the stream is enabled, release reported the error.
C6_Witness ==
    /\ last = Op("release", "Transfer")
    /\ buf.state = "MutLocked"
    /\ dma.teif[S] /\ dma.tcif[S] /\ dma.en[S]

\* C7, the calls: a release on a locked buffer that does not return Done.
C7_Calls ==
    last'.op = "release" /\ buf.state # "Unlocked" =>
      /\ ~dma.teif[S] /\ ~dma.tcif[S] => last'.ret = "WouldBlock"
      /\ last'.ret \in {"WouldBlock", "Transfer"}
           => buf' = buf /\ dma' = dma /\ refs' = refs /\ refmuts' = refmuts

\* C7: a release on a locked buffer that returns Pending or the Transfer
\* error leaves the lock state, the borrow count, the status flags and the
\* enable bit as they were.
C7_PollChangesNothing == [][C7_Calls]_vars

\* release returned Pending on a read-locked buffer of an enabled stream.
C7_Witness ==
    /\ last = Op("release", "WouldBlock")
    /\ buf.state = "Locked"
    /\ dma.en[S]

\* C8, the calls: a release on a buffer that is Unlocked.
C8_Calls ==
    last'.op = "release" /\ buf.state = "Unlocked" =>
      /\ last'.ret = "Ok"
      /\ dma' = dma
      /\ buf' = buf
      /\ refs' = refs /\ refmuts' = refmuts

\* C8: release on an Unlocked buffer returns success and writes nothing,
\* whatever the flags of the stream are.
C8_ReleaseUnlockedIsNoOp == [][C8_Calls]_vars

\* release returned on an Unlocked buffer with a Ref live while the stream
\* was enabled and both of its flags were set: all are still as they were.
C8_Witness ==
    /\ last = Op("release", "Ok")
    /\ buf.state = "Unlocked"
    /\ refs = 1 /\ buf.flag = 1
    /\ dma.en[S] /\ dma.tcif[S] /\ dma.teif[S]

\* C9, the calls: a borrow right after the round trip.
C9_Calls ==
    trip.step = "released" /\ last'.op = "borrow" => last'.ret = "Ref"

\* C9: lock or lock_mut, then the hardware completion, then a release that
\* returns Done: the buffer is Unlocked, the count is what it was before the
\* lock, and a borrow that follows returns.
C9_RoundTrip ==
    /\ [](trip.step = "released"
            => buf.state = "Unlocked" /\ buf.flag = trip.pre)
    /\ [][C9_Calls]_vars

\* A round trip that started with a Ref live has ended.
C9_Witness ==
    /\ trip.step = "released"
    /\ trip.pre = 1 /\ refs = 1
    /\ last = Op("release", "Ok")

\* C10 as stated: while the Transfer is outstanding CPU code reaches neither
\* the buffer nor the payload.
C10_NoAccessWhileOutstanding ==
    xfer.st \in {"outstanding", "waiting"} => cpu = {} /\ derefs = 0

\* C10, the calls: the one step that gives CPU code a value back.
C10_Calls ==
    cpu' # cpu /\ cpu' # {} =>
      /\ last'.op = "wait" /\ last'.ret = "Ok"
      /\ cpu' = {Words, SpiDev}

\* C10 amended: while the Transfer is outstanding CPU code owns neither the
\* buffer nor the payload; it reaches the buffer only, and only through the
\* shared references deref returns, none of which is live once wait has been
\* called; a wait that returns Ok is the only step that hands either back.
C10_SharedReadOnly ==
    /\ [](xfer.st \in {"outstanding", "waiting"} => cpu = {})
    /\ [](xfer.st = "waiting" => derefs = 0)
    /\ [](last.op = "deref" => last.ret = Words)
    /\ [][C10_Calls]_vars

\* The Transfer is outstanding and CPU code holds a reference from deref.
C10_Witness ==
    /\ xfer.st = "outstanding"
    /\ cpu = {}
    /\ derefs > 0
    /\ last = Op("deref", Words)

\* Event a comes before event b in the sequence ev.
Before(ev, a, b) ==
    \E i, j \in DOMAIN ev : i < j /\ ev[i] = a /\ ev[j] = b

\* The events that are memory barriers.
Fences == {"compiler_fence", "fence"}

\* C11, the calls: a turn of wait that returns Ok.
C11_Calls ==
    last'.op = "wait" /\ last'.ret = "Ok" =>
      /\ dma.tcif[tstream] /\ ~dma.teif[tstream]
      /\ ~dma'.tcif[tstream]
      /\ cpu' = {xfer.buffer, xfer.payload}
      /\ cpu' = {Words, SpiDev}

\* C11: wait returns Ok only on reading the stream's complete flag set with
\* its error flag clear; it then clears the complete flag in hardware and
\* returns the buffer and the payload given to Transfer::new, nothing else.
C11_WaitOk == [][C11_Calls]_vars

\* wait returned Ok on a stream of the high register group: its complete
\* flag reads clear and the caller has the words and the Spi again.
C11_Witness ==
    /\ last = Op("wait", "Ok")
    /\ tstream \notin LowStreams
    /\ ~dma.tcif[tstream]
    /\ cpu = {Words, SpiDev}

\* C12, the calls: the order of events in a turn of wait that returns Ok.
C12_Calls ==
    last'.op = "wait" /\ last'.ret = "Ok" =>
      /\ dma.tcif[tstream]
      /\ \E f \in Fences :
           /\ Before(events', "is_done", f)
           /\ Before(events', f, "return")
      /\ cpu = {}

\* C12: on every wait that returns Ok the fence is issued after the poll
\* that read the complete flag set and before the buffer goes back to the
\* caller, who does not have it before.
C12_WaitFenced == [][C12_Calls]_vars

\* wait has returned the buffer after poll, fence, clear, in this order.
C12_Witness ==
    /\ last = Op("wait", "Ok")
    /\ events = <<"is_done", "compiler_fence", "clear_tcif", "return">>
    /\ Words \in cpu

\* C13: on every release that returns Done on a locked buffer a fence is
\* issued after the read of the complete flag and before the unlock.
C13_ReleaseFenced ==
    [][ last'.op = "release" /\ last'.ret = "Ok" /\ buf.state # "Unlocked"
        => \E f \in Fences :
             /\ Before(events', "read_tcif", f)
             /\ Before(events', f, "unlock") ]_vars

\* wait has given its result: the handle is gone.
WaitOver == xfer.st \in {"returned", "failed"}

\* One of the two flags wait polls is set.
FlagUp == dma.tcif[tstream] \/ dma.teif[tstream]

\* C14, the calls: a turn of wait with both flags clear spins, and a wait
\* that has been called ends in no other way than by a turn of its own that
\* reads a flag set.
C14_Calls ==
    /\ last'.op = "wait" /\ ~FlagUp
         => last'.ret = "spin" /\ xfer'.st = "waiting" /\ cpu' = cpu
    /\ xfer.st = "waiting" /\ xfer'.st # "waiting"
         => last'.op = "wait" /\ FlagUp /\ WaitOver'

\* C14: wait never returns while the complete and the error flag are both
\* clear (it spins, with no timeout and no way to cancel), and once the
\* hardware has set one of them a wait in course returns.
C14_WaitRunsToTheEnd ==
    /\ [][C14_Calls]_vars
    /\ (xfer.st = "waiting" /\ FlagUp) ~> WaitOver

\* wait has polled with both flags clear and the engine has completed the
\* transfer since.
C14_Witness ==
    /\ xfer.st = "waiting"
    /\ dma.tcif[tstream] /\ ~dma.teif[tstream]
    /\ last = Op("hw", "None")

\* C15, the calls: a turn of wait that reads the error flag set, and what
\* can happen once the handle is gone that way.
C15_Calls ==
    /\ last'.op = "wait" /\ dma.teif[tstream] =>
         /\ last'.ret = "Transfer"
         /\ xfer' = [st |-> "failed", buffer |-> "none", payload |-> "none"]
         /\ cpu' = {}
         /\ dma'.tcif = dma.tcif /\ dma'.en = dma.en /\ dma' = dma
    /\ xfer.st = "failed" => xfer' = xfer /\ cpu' = {}

\* C15: a wait that reads the error flag set consumes the handle and
\* returns the Transfer error alone: neither the buffer nor the payload
\* comes back, then or later; the complete flag is not cleared and the
\* enable bit is not written.
C15_WaitErrorKeepsAll == [][C15_Calls]_vars

\* wait has failed on an enabled stream with both flags set: the flags and
\* the enable bit are as they were and the caller has nothing.
C15_Witness ==
    /\ last = Op("wait", "Transfer")
    /\ xfer.st = "failed"
    /\ cpu = {}
    /\ dma.tcif[tstream] /\ dma.teif[tstream] /\ dma.en[tstream]

\* C16, the calls: what is_done returns and what it writes.
C16_Calls ==
    last'.op = "is_done" =>
      /\ dma.teif[tstream] => last'.ret = "Transfer"
      /\ ~dma.teif[tstream] /\ dma.tcif[tstream] => last'.ret = "true"
      /\ ~dma.teif[tstream] /\ ~dma.tcif[tstream] => last'.ret = "false"
      /\ dma' = dma /\ xfer' = xfer /\ cpu' = cpu /\ derefs' = derefs
      /\ buf' = buf

\* C16: is_done returns the Transfer error if the error flag of its own
\* stream is set, otherwise whether the complete flag of its own stream is
\* set, whatever the flags at the same bits of the other register group
\* are; it writes no flag, no register and leaves the handle as it is.
C16_IsDonePolls == [][C16_Calls]_vars

\* is_done of a stream of the high group said "not done" while the stream of
\* the low group with the same bits had its complete and error flags set.
C16_Witness ==
    /\ last = Op("is_done", "false")
    /\ tstream \notin LowStreams
    /\ peer = TwinStream(tstream)
    /\ dma.tcif[peer] /\ dma.teif[peer]
    /\ xfer.st = "outstanding"

\* C17, the calls: any step taken while the buffer is locked and the error
\* flag of its stream is set.
C17_Calls ==
    buf.state # "Unlocked" /\ dma.teif[S] =>
      /\ last'.op = "release" => last'.ret = "Transfer"
      /\ dma'.teif[S]
      /\ buf'.state = buf.state

\* C17: once the error flag of a locked buffer's stream is set, nothing in
\* the subsystem clears it, every release returns the Transfer error and no
\* release takes the buffer back to Unlocked.
C17_StuckOnError == [][C17_Calls]_vars

\* A read-locked buffer with a Ref live, error flag set, complete flag
\* clear: release has reported the error and the buffer is still locked.
C17_Witness ==
    /\ last = Op("release", "Transfer")
    /\ buf.state = "Locked"
    /\ refs = 1
    /\ dma.teif[S] /\ ~dma.tcif[S]

\* The address of the peripheral side of a transfer from src to dst.
PeripheralSide(dir, src, dst) == IF dir = "periph_to_memory" THEN src ELSE dst

\* The address of the memory side of a transfer from src to dst.
MemorySide(dir, src, dst) == IF dir = "periph_to_memory" THEN dst ELSE src

\* C18, the calls: the registers after set_config(src, dst, length) on a
\* stream, and the registers it leaves alone.
C18_Calls ==
    last'.op = "set_config" =>
      LET s   == args'.stream
          dir == dma.dir[s]
      IN  /\ dma'.ndtr[s] = args'.length
          /\ dir \in {"periph_to_memory", "memory_to_periph"} =>
                /\ dma'.par[s] = PeripheralSide(dir, args'.src, args'.dst)
                /\ dma'.m0ar[s] = MemorySide(dir, args'.src, args'.dst)
          /\ dma'.dir = dma.dir /\ dma'.en = dma.en
          /\ dma'.tcif = dma.tcif /\ dma'.teif = dma.teif
          /\ \A o \in HwStreams \ {s} :
                /\ dma'.ndtr[o] = dma.ndtr[o]
                /\ dma'.par[o] = dma.par[o]
                /\ dma'.m0ar[o] = dma.m0ar[o]

\* C18: set_config(src, dst, length) writes length to the stream's count
\* register; peripheral-to-memory: peripheral register = src, memory
\* register = dst; memory-to-peripheral: peripheral register = dst, memory
\* register = src; it writes nothing else.
C18_SetConfigByDirection == [][C18_Calls]_vars

\* set_config(memory, data register, 2) on a memory-to-peripheral stream
\* that was programmed the other way before.
C18_Witness ==
    /\ last = Op("set_config", "None")
    /\ dma.dir[args.stream] = "memory_to_periph"
    /\ args.src = as_ptr(Words) /\ args.dst = dr_address(SpiDev)
    /\ args.length = 2
    /\ dma.par[args.stream] = dr_address(SpiDev)
    /\ dma.m0ar[args.stream] = as_ptr(Words)

\* C19, the calls: a driver call that finds one of its streams enabled.
C19_Calls ==
    LET unchanged == buf' = buf /\ buf2' = buf2 /\ dma' = dma IN
    /\ last'.op = "send_dma" /\ dma.en[spi.dmatx]
         => last'.ret = "InUse" /\ unchanged
    /\ last'.op = "rxtx_dma" /\ (dma.en[spi.dmatx] \/ dma.en[spi.dmarx])
         => last'.ret = "InUse" /\ unchanged
    /\ last'.ret = "InUse"
         => (dma.en[spi.dmatx] \/ dma.en[spi.dmarx]) /\ unchanged

\* C19: send_dma with its transmit stream enabled, and rxtx_dma with its
\* transmit or its receive stream enabled, return InUse and leave both
\* buffers (lock state, count) and every register as they were.
C19_InUseChangesNothing == [][C19_Calls]_vars

\* rxtx_dma was refused because of the receive stream alone: the transmit
\* stream is disabled and its buffer has been released.
C19_Witness ==
    /\ last = Op("rxtx_dma", "InUse")
    /\ ~dma.en[spi.dmatx] /\ dma.en[spi.dmarx]
    /\ buf.state = "Unlocked" /\ buf2.state = "Locked"

\* C20: whenever a stream started by send_dma or rxtx_dma has its enable
\* bit set, the buffer that was handed to it is hardware-locked.
C20_EnabledMeansLocked ==
    \A p \in handed : dma.en[p[1]] => Bufs[p[2]].state # "Unlocked"


\* The stream the CircBuffer is dedicated to.
CS == cbuf.stream

\* C21, the calls: each transition of the CircBuffer and the half it yields.
C21_Calls ==
    /\ cbuf.state = "Free" /\ cbuf'.state # "Free"
         => last'.op = "circ_lock" /\ cbuf'.state = "FillingHalf0"
    /\ last'.op = "circ_lock" /\ cbuf.state # "Free"
         => last'.ret = "Panic" /\ cbuf' = cbuf
    /\ last'.op = "circ_read" /\ cbuf.state = "FillingHalf0"
         /\ ~dma.teif[CS] /\ ~dma.tcif[CS] /\ dma.htif[CS]
         => /\ last'.ret = "half0"
            /\ cbuf'.state = "FillingHalf1"
            /\ ~dma'.htif[CS]
    /\ last'.op = "circ_read" /\ cbuf.state = "FillingHalf1"
         /\ ~dma.teif[CS] /\ ~dma.htif[CS] /\ dma.tcif[CS]
         => /\ last'.ret = "half1"
            /\ cbuf'.state = "FillingHalf0"
            /\ ~dma'.tcif[CS]
    /\ last'.ret = "half0" => filling' = 1 /\ cbuf.state = "FillingHalf0"
    /\ last'.ret = "half1" => filling' = 0 /\ cbuf.state = "FillingHalf1"

\* C21: lock is the only transition out of Free and fails when the state is
\* not Free; from FillingHalf0 a read that sees the half-transfer flag
\* clears it, moves to FillingHalf1 and yields half 0; from FillingHalf1 a
\* read that sees the transfer-complete flag clears it, moves to
\* FillingHalf0 and yields half 1; the half handed to the CPU is never the
\* half the engine is filling.
C21_CircStateMachine == [][C21_Calls]_vars

\* The second time around: read has handed over half 1 while the engine is
\* back in half 0.
C21_Witness ==
    /\ last = Op("circ_read", "half1")
    /\ cbuf.state = "FillingHalf0"
    /\ filling = 0
    /\ ~dma.tcif[CS] /\ ~dma.htif[CS]

\* C22, the calls: a read that finds the engine has wrapped into the half
\* that was not taken yet.
C22_Calls ==
    /\ last'.op = "circ_read" /\ cbuf.state = "FillingHalf0"
         /\ ~dma.teif[CS] /\ dma.tcif[CS]
         => last'.ret = "Overrun" /\ cbuf' = cbuf /\ dma' = dma
    /\ last'.op = "circ_read" /\ cbuf.state = "FillingHalf1"
         /\ ~dma.teif[CS] /\ dma.htif[CS]
         => last'.ret = "Overrun" /\ cbuf' = cbuf /\ dma' = dma

\* C22: in FillingHalf0 a read that sees the transfer-complete flag set
\* before the half-transfer flag was consumed returns Overrun and leaves the
\* state unchanged; the same in FillingHalf1 with the half-transfer flag.
C22_Overrun == [][C22_Calls]_vars

\* The engine filled both halves before the first read: Overrun, the state
\* and both flags are as they were.
C22_Witness ==
    /\ last = Op("circ_read", "Overrun")
    /\ cbuf.state = "FillingHalf0"
    /\ dma.tcif[CS] /\ dma.htif[CS]
    /\ filling = 0


\* The Buffer has been handed to the stream it is bound to, and to no other.
OnItsStream ==
    /\ <<S, "buf">> \in handed
    /\ \A p \in handed : p[2] = "buf" => p[1] = S

\* C23: whatever the stream and however many lock / start / complete /
\* release cycles came before, a release called after the buffer was locked
\* and its stream started again does not return Done before the engine has
\* completed the new transfer.
C23_NoStaleDone ==
    [][ last'.op = "release" /\ buf.state # "Unlocked" /\ OnItsStream
          /\ trip.step = "locked"
        => last'.ret # "Ok" ]_vars


\* C24: a release on a buffer bound to stream S, for every S in Stream0 ..
\* Stream4, leaves the transfer-complete, half-transfer and error flags and
\* the enable bit of every other stream as they were.
C24_ReleaseOwnStreamOnly ==
    [][ last'.op = "release"
        => \A o \in HwStreams \ {S} :
             /\ dma'.tcif[o] = dma.tcif[o]
             /\ dma'.htif[o] = dma.htif[o]
             /\ dma'.teif[o] = dma.teif[o]
             /\ dma'.en[o] = dma.en[o] ]_vars


\* The receive transfer started by rxtx_dma is in flight: the Buffer was
\* handed to the stream of dmarx and no release has returned Done since.
RxInFlight ==
    /\ <<spi.dmarx, "buf">> \in handed
    /\ buf.state # "Unlocked"

\* C25: from the moment rxtx_dma has started the receive stream until
\* release returns Done for the rx buffer, borrow and borrow_mut on the rx
\* buffer both abort.
C25_NoBorrowOfRxInFlight ==
    [][ RxInFlight /\ last'.op \in {"borrow", "borrow_mut"}
        => last'.ret = "Panic" ]_vars

\* C26: Spi::transfer returns InUse and writes no stream register whenever
\* the transmit or the receive stream it configures has its enable bit set.
C26_TransferInUse ==
    [][ last'.op = "transfer" /\ (dma.en[spi.dmatx] \/ dma.en[spi.dmarx])
        => last'.ret = "InUse" /\ dma' = dma ]_vars


\* C27, the states: the borrow count by the live borrows and the lock.
C27_Count ==
    /\ buf.flag = WRITING <=> (refmuts > 0 \/ buf.state = "MutLocked")
    /\ buf.flag # WRITING
         => buf.flag = refs + (IF buf.state = "Locked" THEN 1 ELSE 0)

\* C27, the calls: the two decrements, Drop for Ref and the unlock of a
\* read lock in release, find a count above zero and do not abort.
C27_Calls ==
    /\ last'.op = "drop_ref" => buf.flag > 0 /\ last'.ret # "Panic"
    /\ last'.op = "release" =>
         /\ last'.ret # "Panic"
         /\ buf.state = "Locked" /\ buf'.state = "Unlocked" => buf.flag > 0

\* C27: in every reachable state the borrow count is the writing sentinel
\* exactly when a RefMut is live or the buffer is MutLocked, and otherwise
\* the number of live Refs plus one if it is Locked; no Ref drop and no
\* release decrements a count of zero.
C27_BorrowCountAccounting == []C27_Count /\ [][C27_Calls]_vars

\* release has taken the read lock off a buffer with two Refs live: the
\* count is back at two.
C27_Witness ==
    /\ last = Op("release", "Ok")
    /\ buf.state = "Unlocked"
    /\ refs = 2 /\ buf.flag = 2
    /\ trip.step = "released"


\* C28: whatever the engine does between the steps of release, release does
\* not return Done and does not unlock the buffer when the error flag of
\* the stream was set at the moment the complete flag was read.
C28_ReleaseOneView ==
    [][ last'.op = "release" /\ buf.state # "Unlocked" /\ dma.teif[S]
        => last'.ret # "Ok" /\ buf'.state = buf.state ]_vars


C30_Stream == args.stream

\* C30, the states: the two bits are never both set, on any stream.
C30_OneModeBit == \A s \in HwStreams : ~(dma.circ[s] /\ dma.pfctrl[s])

\* C30, the calls: the two bits and the enable bit after mode(m).
C30_Calls ==
    last'.op = "mode" =>
      LET s == args'.stream
          m == args'.mode
      IN  /\ dma'.circ[s] = (m = "Circular")
          /\ dma'.pfctrl[s] = (m = "PeripheralFlowControl")
          /\ dma'.en = dma.en

\* C30: after mode(m) on a stream, whatever its mode was, the circular bit
\* and the flow-control bit encode m (Normal: both clear, Circular: the
\* circular bit alone, PeripheralFlowControl: the flow-control bit alone),
\* the two are never both set, and the enable bit is as it was.
C30_ModeEncodesExactly == []C30_OneModeBit /\ [][C30_Calls]_vars

\* mode(PeripheralFlowControl) was called on an enabled stream while the
\* other stream is in circular mode.
C30_Witness ==
    /\ last = Op("mode", "None")
    /\ args.mode = "PeripheralFlowControl"
    /\ dma.pfctrl[C30_Stream] /\ ~dma.circ[C30_Stream]
    /\ dma.en[C30_Stream]
    /\ \E o \in Active \ {C30_Stream} : dma.circ[o] /\ ~dma.pfctrl[o]

=============================================================================
